---- MODULE Spec2Model ----
(***************************************************************************)
(* Model of src/Check_Standard_Conjectures.ipynb: the checker of the       *)
(* standard conjectures for the Chow rings of Grassmannians.               *)
(*                                                                         *)
(* Python lists are sequences; a Python index k is the TLA+ index k + 1.   *)
(* A Sage vector is a sequence of integers.  A Sage matrix is a record     *)
(* [rows, cols, e] with e a function on (0..rows-1) \X (0..cols-1).        *)
(* One behaviour is one call: Init draws the function called (op) and its  *)
(* arguments, the actions run it statement by statement.                   *)
(***************************************************************************)
EXTENDS Integers, Sequences, FiniteSets, TLC

\* Bounds of the model (the arguments drawn by Init).
MaxM == 3
MaxN == 2
MaxNeg == 1
MaxCoord == 2
\* aHodge is called with m, n <= MaxArith and m + n <= MaxArithSum;
\* Check_GST and Check_AST with m, n <= MaxCheck.
MaxArith == 2
MaxArithSum == 4
MaxCheck == 1
\* Signature is called with lists of 1..MaxSigLen integers in -1..MaxSigVal.
MaxSigLen == 5
MaxSigVal == 1
\* Tam is called with m, n in 0..MaxTam.
MaxTam == 4

VARIABLES op, m, n, r, pc, L, Z, M, p, i, j, D, nsub, ret, s1, s2, run, prev,
          calls

vars == <<op, m, n, r, pc, L, Z, M, p, i, j, D, nsub, ret, s1, s2, run, prev,
          calls>>

----------------------------------------------------------------------------
\* Generic list helpers (Python built-ins).

\* 1..k, empty when k <= 0: the positions of a list of k entries.
Upto(k) == 1..(IF k < 0 THEN 0 ELSE k)

\* Python's s[k] for a list s and an index k >= 0.
At(s, k) == s[k + 1]

\* sum(ls, []) : concatenation of a list of lists.
RECURSIVE Flatten(_)
Flatten(ls) == IF ls = <<>> THEN <<>> ELSE Head(ls) \o Flatten(Tail(ls))

\* sum of a list of integers.
RECURSIVE SumSeq(_)
SumSeq(s) == IF s = <<>> THEN 0 ELSE Head(s) + SumSeq(Tail(s))

\* [x]*k : k copies of x (the empty list when k <= 0, as in Python).
Rep(x, k) == [q \in Upto(k) |-> x]

\* v in s, and s.index(v) (0-based, first occurrence).
InList(s, v) == \E k \in 1..Len(s) : s[k] = v
Index(s, v) == (CHOOSE k \in 1..Len(s) : s[k] = v /\ \A q \in 1..(k-1) : s[q] # v) - 1

\* floor(a/2) for the non-negative a the code passes.
Floor2(a) == a \div 2

----------------------------------------------------------------------------
\* weight, B.

\* weight(v) = sum of v[k-1]*k for k in 1..len(v).
weight(v) == SumSeq([k \in 1..Len(v) |-> v[k] * k])

\* IntegerVectors(s, k).list(): the vectors of k non-negative integers of sum
\* s, the first coordinate descending (Sage's order), recursively.
RECURSIVE IntegerVectors(_, _)
IntegerVectors(s, k) ==
    IF k = 0 THEN (IF s = 0 THEN << <<>> >> ELSE <<>>)
    ELSE IF k = 1 THEN << <<s>> >>
    ELSE Flatten([nbar1 \in 1..(s + 1) |->
             LET rest == IntegerVectors(nbar1 - 1, k - 1)
             IN  [q \in 1..Len(rest) |-> <<s - (nbar1 - 1)>> \o rest[q]]])

\* A faulty variant, for comparison: the enumeration leaves out the vectors of coordinate sum m.
AllVectorsShort(mm, nn) == Flatten([j1 \in 1..mm |-> IntegerVectors(j1 - 1, nn)])

\* A faulty variant, for comparison: the enumeration starts at coordinate
\* sum 1, the zero vector is left out.
AllVectorsNonzero(mm, nn) ==
    Flatten([j1 \in 2..(mm + 1) |-> IntegerVectors(j1 - 1, nn)])

\* sum([IntegerVectors(j,n).list() for j in (0..m)],[])
AllVectors(mm, nn) == Flatten([j1 \in 1..(mm + 1) |-> IntegerVectors(j1 - 1, nn)])

\* Insertion of v into a list sorted by weight, after the entries of equal
\* weight: list.sort(key=weight) is stable.
RECURSIVE InsertByWeight(_, _)
InsertByWeight(s, v) ==
    IF s = <<>> THEN <<v>>
    ELSE IF weight(s[Len(s)]) <= weight(v) THEN Append(s, v)
    ELSE Append(InsertByWeight(SubSeq(s, 1, Len(s) - 1), v), s[Len(s)])

\* A faulty variant, for comparison: the list is grouped without being sorted first.
SortByWeightNone(l) == l

\* l.sort(key=weight)
RECURSIVE SortByWeight(_)
SortByWeight(l) ==
    IF l = <<>> THEN <<>>
    ELSE InsertByWeight(SortByWeight(SubSeq(l, 1, Len(l) - 1)), l[Len(l)])

\* [list(x) for _,x in groupby(l,key=weight)]: the runs of consecutive
\* entries of equal weight.
RECURSIVE GroupByWeight(_)
GroupByWeight(l) ==
    IF l = <<>> THEN <<>>
    ELSE LET g == GroupByWeight(SubSeq(l, 1, Len(l) - 1))
             v == l[Len(l)]
         IN  IF g # <<>> /\ weight(g[Len(g)][1]) = weight(v)
             THEN [g EXCEPT ![Len(g)] = Append(g[Len(g)], v)]
             ELSE Append(g, <<v>>)

\* A faulty variant, for comparison: the guard forgets the test m < 0.
DegenerateOnlyN(mm, nn) == nn < 0

\* if (m<0) or (n<0): the guard that opens B, Vgeom and Varith.
Degenerate(mm, nn) == mm < 0 \/ nn < 0

\* B(m,n)
B(mm, nn) ==
    IF Degenerate(mm, nn) THEN <<>>
    ELSE GroupByWeight(SortByWeight(AllVectors(mm, nn)))

----------------------------------------------------------------------------
\* Kostka numbers (sage.libs.symmetrica kostka_number_symmetrica): the number
\* of semistandard tableaux of shape lam and content mu.  The library is not
\* part of the repository; it is modelled by the number it is documented to
\* return, computed by removing horizontal strips.

\* The shapes left when a horizontal strip of s boxes is removed from the
\* rows k..Len(lam) of lam (the rows before k are kept).
RECURSIVE Strips(_, _, _)
Strips(lam, k, s) ==
    IF k > Len(lam) THEN (IF s = 0 THEN {lam} ELSE {})
    ELSE LET below == IF k = Len(lam) THEN 0 ELSE lam[k + 1]
             room  == lam[k] - below
         IN  UNION {Strips([q \in 1..Len(lam) |->
                                IF q = k THEN lam[q] - c ELSE lam[q]],
                           k + 1, s - c) :
                       c \in 0..(IF s < room THEN s ELSE room)}

\* The tableaux of shape lam whose entries 1..k have the content mu[1..k],
\* each as the chain of the shapes of its entries <= 1, <= 2, ..., <= k.
RECURSIVE Tableaux(_, _, _)
Tableaux(lam, mu, k) ==
    IF k = 0 THEN (IF SumSeq(lam) = 0 THEN {<<>>} ELSE {})
    ELSE UNION {{Append(t, nu) : t \in Tableaux(nu, mu, k - 1)} :
                   nu \in Strips(lam, 1, mu[k])}

\* A faulty variant, for comparison: the content is ignored and the standard
\* tableaux of the shape are counted.
kostkaStandard(lam, mu) ==
    Cardinality(Tableaux(lam, Rep(1, SumSeq(lam)), SumSeq(lam)))

kostka(lam, mu) == Cardinality(Tableaux(lam, mu, Len(mu)))

----------------------------------------------------------------------------
\* Outcomes of a call: a returned value or a raised exception.
Return(v) == [ok |-> TRUE, val |-> v]
Raise(x) == [ok |-> FALSE, exc |-> x]

\* w = sum([[j]*r[j-1] for j in (1..n)],[])
Content(v) == Flatten([k \in 1..Len(v) |-> Rep(k, v[k])])

\* A faulty variant, for comparison: the guard tests the quotient instead of the remainder.
gdegDivGuard(v) ==
    LET nn == Len(v)
        pp == weight(v)
    IN  IF pp \div nn # 0 THEN Raise("ValueError")
        ELSE Return(kostka(Rep(nn, pp \div nn), Content(v)))

\* gdeg(r)
gdeg(v) ==
    LET nn == Len(v)
        pp == weight(v)
    IN  IF pp % nn # 0 THEN Raise("ValueError")
        ELSE Return(kostka(Rep(nn, pp \div nn), Content(v)))

----------------------------------------------------------------------------
\* Exact rationals (Sage's QQ): a pair <<numerator, denominator>> in lowest
\* terms with a positive denominator.

Abs(a) == IF a < 0 THEN 0 - a ELSE a

RECURSIVE Gcd(_, _)
Gcd(a, b) == IF b = 0 THEN a ELSE Gcd(b, a % b)

QNorm(a, b) ==
    LET g == Gcd(Abs(a), Abs(b))
        sg == IF b < 0 THEN 0 - 1 ELSE 1
    IN  <<(sg * a) \div g, (sg * b) \div g>>

QInt(a) == <<a, 1>>
QAdd(x, y) == QNorm(x[1] * y[2] + y[1] * x[2], x[2] * y[2])
QSub(x, y) == QNorm(x[1] * y[2] - y[1] * x[2], x[2] * y[2])
QMul(x, y) == QNorm(x[1] * y[1], x[2] * y[2])
QHalf(x) == QNorm(x[1], 2 * x[2])

RECURSIVE QSum(_)
QSum(s) == IF s = <<>> THEN QInt(0) ELSE QAdd(Head(s), QSum(Tail(s)))

\* harm_list(n): [H_0, ..., H_n].
RECURSIVE harm_list(_)
harm_list(k) ==
    IF k < 1 THEN <<QInt(0)>>
    ELSE LET H == harm_list(k - 1)
         IN  Append(H, QAdd(H[Len(H)], <<1, k>>))

----------------------------------------------------------------------------
\* Tam, adeg.

Min(a, b) == IF a < b THEN a ELSE b

\* A faulty variant, for comparison: b runs up to n-1, the bound
\* m+n-a-j-1 is left out.
TamUnbounded(mm, nn) ==
    Flatten([a1 \in Upto(mm) |->
        Flatten([j1 \in Upto(nn) |->
            LET a == a1 - 1
                jj == j1 - 1
            IN  [b1 \in Upto(nn - 1 - jj) |-> <<a, jj + b1, jj>>]])])

\* Tam(m,n): the triples (a,b,j), in the order of the three nested loops.
Tam(mm, nn) ==
    Flatten([a1 \in Upto(mm) |->
        Flatten([j1 \in Upto(nn) |->
            LET a == a1 - 1
                jj == j1 - 1
                top == Min(nn - 1, mm + nn - a - jj - 1)
            IN  [b1 \in Upto(top - jj) |-> <<a, jj + b1, jj>>]])])

\* [sum(x) for x in zip(x1, x2, x3)]: zip stops at the shortest list.
ZipSum3(x1, x2, x3) ==
    [k \in 1..Min(Len(x1), Min(Len(x2), Len(x3))) |-> x1[k] + x2[k] + x3[k]]

\* A faulty variant, for comparison: the first list is [m-1]*(n-1) without
\* the final [a], and zip stops one entry early.
TamShapeShort(mm, nn, t) ==
    LET a == t[1]
        b == t[2]
        jj == t[3]
    IN  ZipSum3(Rep(mm - 1, nn - 1),
                Rep(1, b) \o Rep(0, nn - b),
                <<mm + nn - a - b - jj>> \o Rep(1, jj) \o Rep(0, nn - jj - 1))

\* The list handed to Partition() for the triple t = (a,b,j).
TamShape(mm, nn, t) ==
    LET a == t[1]
        b == t[2]
        jj == t[3]
    IN  ZipSum3(Rep(mm - 1, nn - 1) \o <<a>>,
                Rep(1, b) \o Rep(0, nn - b),
                <<mm + nn - a - b - jj>> \o Rep(1, jj) \o Rep(0, nn - jj - 1))

\* Partition(l) accepts the weakly decreasing lists of non-negative integers.
IsPartition(l) ==
    /\ \A k \in 1..Len(l) : l[k] >= 0
    /\ \A k \in 1..(Len(l) - 1) : l[k] >= l[k + 1]

\* Partition(l).conjugate()
conjugate(l) ==
    [k \in 1..(IF l = <<>> THEN 0 ELSE l[1]) |->
        Cardinality({q \in 1..Len(l) : l[q] >= k})]

Sign(k) == IF k % 2 = 0 THEN 1 ELSE 0 - 1

None == "None"

\* A faulty variant, for comparison: the guard tests the weight's own remainder against 1.
adegModGuard(v, T0, H0) ==
    LET nn == Len(v)
        pp == weight(v)
    IN  IF pp % nn # 1 THEN Raise("ValueError") ELSE Return(QInt(0))

\* adeg(r,T=None,H=None)
adeg(v, T0, H0) ==
    LET nn == Len(v)
        pp == weight(v)
    IN  IF (pp - 1) % nn # 0 THEN Raise("ValueError")
        ELSE
        LET mm == (pp - 1) \div nn
            T == IF T0 = None THEN Tam(mm, nn) ELSE T0
            H == IF H0 = None THEN harm_list(mm + nn - 1) ELSE H0
            w == Content(v)
            first == QMul(QInt(kostka(Rep(nn, mm) \o <<1>>, w)),
                          QSum([k \in Upto(mm) |-> At(H, nn + k - 1)]))
            term(t) ==
                QMul(QInt(Sign(nn + t[2] + t[3])
                          * kostka(conjugate(TamShape(mm, nn, t)), w)),
                     QSub(At(H, mm + nn - t[1] - t[3] - 1),
                          At(H, mm + nn - t[1] - t[2] - 1)))
        IN  IF \E q \in 1..Len(T) : ~IsPartition(TamShape(mm, nn, T[q]))
            THEN Raise("ValueError")
            ELSE Return(QHalf(QAdd(first, QSum([q \in 1..Len(T) |-> term(T[q])]))))

----------------------------------------------------------------------------
\* Vectors and matrices (Sage).

\* v + w for vectors of one length; Sage raises TypeError otherwise.
VecAdd(v, w) == [k \in 1..Len(v) |-> v[k] + w[k]]
VecScale(c, v) == [k \in 1..Len(v) |-> c * v[k]]

\* A faulty variant, for comparison: the last unit vector instead of the first.
eLast(nn) == Rep(0, nn - 1) \o <<1>>

\* e = vector([1]+[0]*(n-1))
e1(nn) == <<1>> \o Rep(0, nn - 1)

\* matrix(rows, cols): the zero matrix; matrix(d) is matrix(d, d).
matrix(rows, cols) ==
    [rows |-> rows, cols |-> cols,
     e |-> [x \in (0..(rows - 1)) \X (0..(cols - 1)) |-> 0]]

\* A[i,j] = k
MSet(A, ii, jj, k) == [A EXCEPT !.e[<<ii, jj>>] = k]

----------------------------------------------------------------------------
\* The pool: the body of the innermost loops of Vgeom and Varith.

\* A faulty variant, for comparison: the membership test is dropped, every vector is appended.
DedupAlways(Zp, z) == [pool |-> Append(Zp, z), idx |-> Len(Zp)]

\* A faulty variant, for comparison: the index recorded after an append is len(Z) instead of len(Z)-1.
DedupOffByOne(Zp, z) ==
    IF InList(Zp, z) THEN [pool |-> Zp, idx |-> Index(Zp, z)]
    ELSE [pool |-> Append(Zp, z), idx |-> Len(Zp) + 1]

\* A faulty variant, for comparison: a new vector is inserted at the front of the pool.
DedupPrepend(Zp, z) ==
    IF InList(Zp, z) THEN [pool |-> Zp, idx |-> Index(Zp, z)]
    ELSE [pool |-> <<z>> \o Zp, idx |-> 0]

\* A faulty variant, for comparison: a new vector is appended twice.
DedupAppendTwice(Zp, z) ==
    IF InList(Zp, z) THEN [pool |-> Zp, idx |-> Index(Zp, z)]
    ELSE [pool |-> Append(Append(Zp, z), z), idx |-> Len(Zp)]

\* if z in Z: index = Z.index(z)  else: Z.append(z); index = len(Z)-1
Dedup(Zp, z) ==
    IF InList(Zp, z) THEN [pool |-> Zp, idx |-> Index(Zp, z)]
    ELSE [pool |-> Append(Zp, z), idx |-> (Len(Zp) + 1) - 1]

\* A faulty variant, for comparison: the mirrored assignment M[j,i] = M[i,j] is missing.
SetSymOneSide(A, ii, jj, k) == MSet(A, ii, jj, k)

\* M[i,j] = k ; M[j,i] = M[i,j]
SetSym(A, ii, jj, k) == MSet(MSet(A, ii, jj, k), jj, ii, k)

----------------------------------------------------------------------------
\* Polynomials of ZZ[t] (PolynomialRing(ZZ)): the sequence of the
\* coefficients, the coefficient of t^k at the index k + 1.

\* 1 - t^k
OneMinusT(k) ==
    IF k = 0 THEN <<0>>
    ELSE [q \in 1..(k + 1) |-> IF q = 1 THEN 1 ELSE IF q = k + 1 THEN 0 - 1 ELSE 0]

PolyMul(a, b) ==
    [k \in 1..(Len(a) + Len(b) - 1) |->
        SumSeq([q \in 1..Len(a) |->
                   IF k - q + 1 \in 1..Len(b) THEN a[q] * b[k - q + 1] ELSE 0])]

\* product(list of polynomials)
RECURSIVE product(_)
product(ps) == IF ps = <<>> THEN <<1>> ELSE PolyMul(Head(ps), product(Tail(ps)))

\* The first k coefficients of num/den as a power series (den[1] = 1).
RECURSIVE SeriesQuotient(_, _, _)
SeriesQuotient(num, den, k) ==
    IF k <= 0 THEN <<>>
    ELSE LET q == SeriesQuotient(num, den, k - 1)
             carry == SumSeq([x \in 1..(k - 1) |->
                                 IF k - x + 1 <= Len(den) THEN den[k - x + 1] * q[x]
                                 ELSE 0])
         IN  Append(q, num[k] - carry)

\* A faulty variant, for comparison: the numerator alone, the division left
\* out.
ExactQuotientNone(num, den) == Return(num)

\* R(num/den): the quotient when den divides num, a TypeError otherwise.
ExactQuotient(num, den) ==
    LET q == SeriesQuotient(num, den, Len(num) - Len(den) + 1)
    IN  IF Len(num) >= Len(den) /\ PolyMul(q, den) = num
        THEN Return(q) ELSE Raise("TypeError")

\* P.coefficients(): the non-zero coefficients, by increasing degree.
coefficients(P) == SelectSeq(P, LAMBDA c : c # 0)

\* The polynomial R(product(1-t^(m+j))/product(1-t^j)) of HilbGeom and
\* HilbArithm, as an outcome.
HilbQuotient(mm, nn) ==
    ExactQuotient(product([k \in Upto(nn) |-> OneMinusT(mm + k)]),
                  product([k \in Upto(nn) |-> OneMinusT(k)]))

\* HilbGeom(m,n)
HilbGeom(mm, nn) ==
    LET P == HilbQuotient(mm, nn)
    IN  IF P.ok THEN Return(coefficients(P.val)) ELSE P

\* A faulty variant, for comparison: the factor (1+t) is left out.
HilbArithmPlain(mm, nn) ==
    LET P == HilbQuotient(mm, nn)
    IN  IF P.ok THEN Return(coefficients(P.val)) ELSE P

\* HilbArithm(m,n): P = (1+t)*P
HilbArithm(mm, nn) ==
    LET P == HilbQuotient(mm, nn)
    IN  IF P.ok THEN Return(coefficients(PolyMul(<<1, 1>>, P.val))) ELSE P

\* A faulty variant, for comparison: the list is not truncated at half the
\* length of v.
SignatureFull(v) ==
    LET d == Len(v) - 1
        w == <<1>> \o [k \in Upto(d) |-> At(v, k) - At(v, k - 1)]
    IN  [q1 \in Upto(d + 1) |->
            Sign(q1 - 1) * SumSeq([p1 \in 1..q1 |-> Sign(p1 - 1) * w[p1]])]

\* A faulty variant, for comparison: the factor (-1)^q in front of the sum is
\* left out.
SignatureUnsigned(v) ==
    LET d == Len(v) - 1
        h == Floor2(d)
        w == <<1>> \o [k \in Upto(h) |-> At(v, k) - At(v, k - 1)]
    IN  [q1 \in Upto(h + 1) |->
            SumSeq([p1 \in 1..q1 |-> Sign(p1 - 1) * w[p1]])]

\* Signature(v)
Signature(v) ==
    LET d == Len(v) - 1
        h == Floor2(d)
        w == <<1>> \o [k \in Upto(h) |-> At(v, k) - At(v, k - 1)]
    IN  [q1 \in Upto(h + 1) |->
            Sign(q1 - 1) * SumSeq([p1 \in 1..q1 |-> Sign(p1 - 1) * w[p1]])]

----------------------------------------------------------------------------
\* Matrices over QQ: is_singular() and QuadraticForm(h).signature() (Sage
\* library), modelled by what they are documented to return, computed from a
\* diagonal form of the symmetric matrix.

QDiv(x, y) == QNorm(x[1] * y[2], x[2] * y[1])
QScale(c, x) == QNorm(c * x[1], x[2])

\* matrix(QQ, A) for a matrix A of integers.
QMatrix(A) == [A EXCEPT !.e = [x \in DOMAIN A.e |-> QInt(A.e[x])]]

\* A diagonal form of the symmetric k x k matrix A, a function on
\* (1..k) \X (1..k): the diagonal of a matrix congruent to A.
RECURSIVE Diagonal(_, _)
Diagonal(A, k) ==
    IF k = 0 THEN <<>>
    ELSE LET nz == {x \in 1..k : A[<<x, x>>][1] # 0}
             off == {x \in (1..k) \X (1..k) : x[1] < x[2] /\ A[x][1] # 0}
         IN  IF nz # {}
             THEN LET piv == CHOOSE x \in nz : \A y \in nz : x <= y
                      d == A[<<piv, piv>>]
                      at(q) == IF q < piv THEN q ELSE q + 1
                      A2 == [x \in (1..(k - 1)) \X (1..(k - 1)) |->
                               QSub(A[<<at(x[1]), at(x[2])>>],
                                    QDiv(QMul(A[<<at(x[1]), piv>>],
                                              A[<<piv, at(x[2])>>]), d))]
                  IN  <<d>> \o Diagonal(A2, k - 1)
             ELSE IF off = {} THEN Rep(QInt(0), k)
             ELSE LET ab == CHOOSE x \in off : \A y \in off :
                                x[1] < y[1] \/ (x[1] = y[1] /\ x[2] <= y[2])
                      a == ab[1]
                      b == ab[2]
                      row == [x \in (1..k) \X (1..k) |->
                                IF x[1] = a THEN QAdd(A[x], A[<<b, x[2]>>]) ELSE A[x]]
                      A1 == [x \in (1..k) \X (1..k) |->
                                IF x[2] = a THEN QAdd(row[x], row[<<x[1], b>>])
                                ELSE row[x]]
                  IN  Diagonal(A1, k)

\* The diagonal form of a square matrix record of rationals.
DiagonalForm(h) ==
    Diagonal([x \in (1..h.rows) \X (1..h.rows) |-> h.e[<<x[1] - 1, x[2] - 1>>]],
             h.rows)

\* h.is_singular()
is_singular(h) == \E k \in 1..h.rows : DiagonalForm(h)[k][1] = 0

\* A faulty variant, for comparison: the number of positive entries alone.
signaturePositive(h) ==
    Cardinality({k \in 1..h.rows : DiagonalForm(h)[k][1] > 0})

\* QuadraticForm(h).signature(): positive minus negative eigenvalues.
signature(h) ==
    LET d == DiagonalForm(h)
    IN  Cardinality({k \in 1..h.rows : d[k][1] > 0})
          - Cardinality({k \in 1..h.rows : d[k][1] < 0})

----------------------------------------------------------------------------
\* The calls drawn by Init.

Ops == {"B", "gdeg", "adeg", "Vgeom", "gHodge", "Varith",
        "HilbGeom", "aHodge", "Check_GST", "Check_AST", "Signature", "Tam",
        "HilbArithm"}
GridOps == {"B", "Vgeom", "gHodge", "Varith"}
VectorOps == {"gdeg", "adeg"}
SeriesOps == {"HilbGeom", "HilbArithm"}
ArithOps == {"aHodge"}
CheckOps == {"Check_GST", "Check_AST"}
ListOps == {"Signature"}
TripleOps == {"Tam"}

ArgsM == (0 - MaxNeg)..MaxM
ArgsN == (0 - MaxNeg)..MaxN
Vectors == UNION {[1..k -> 0..MaxCoord] : k \in 1..MaxN}
IntLists == UNION {[1..k -> (0 - 1)..MaxSigVal] : k \in 1..MaxSigLen}

\* What the call has evaluated since it began: the number of evaluations of
\* gdeg and of adeg, and the grades (list positions) of the matrices that
\* is_singular() and signature() were applied to, in order.
NoCalls == [gdeg |-> 0, adeg |-> 0, is_singular |-> <<>>, signature |-> <<>>]

Init ==
    /\ op \in Ops
    /\ \/ op \in GridOps /\ m \in ArgsM /\ n \in ArgsN /\ r = <<>>
       \/ op \in VectorOps /\ m = 0 /\ n = 0 /\ r \in Vectors
       \/ op \in SeriesOps /\ m \in 0..MaxM /\ n \in 0..MaxN /\ r = <<>>
       \/ op \in ArithOps /\ m \in (0 - MaxNeg)..MaxArith
                           /\ n \in (0 - MaxNeg)..MaxArith
                           /\ m + n <= MaxArithSum /\ r = <<>>
       \/ op \in CheckOps /\ m \in 0..MaxCheck /\ n \in 0..MaxCheck /\ r = <<>>
       \/ op \in ListOps /\ m = 0 /\ n = 0 /\ r \in IntLists
       \/ op \in TripleOps /\ m \in 0..MaxTam /\ n \in 0..MaxTam /\ r = <<>>
    /\ pc = "call"
    /\ L = <<>> /\ Z = <<>> /\ M = <<>> /\ D = <<>> /\ nsub = <<>>
    /\ p = 0 /\ i = 0 /\ j = 0
    /\ ret = None
    /\ s1 = <<>> /\ s2 = <<>>
    /\ run = 1
    /\ prev = [ret |-> None, Z |-> <<>>, M |-> <<>>]
    /\ calls = NoCalls

\* The call is over: a value was returned or an exception raised.
Finish(outcome) == pc' = "done" /\ ret' = outcome

\* Where Vgeom and Varith are entered: at the call itself, or from gHodge and
\* aHodge once Check_GST and Check_AST have computed s1.
EntryPc(o) == IF o \in CheckOps THEN "Hodge" ELSE "call"

CallB ==
    /\ pc = "call" /\ op = "B"
    /\ Finish(Return(B(m, n)))
    /\ UNCHANGED <<s1, s2, run, prev, calls>>
    /\ UNCHANGED <<op, m, n, r, L, Z, M, p, i, j, D, nsub>>

Callgdeg ==
    /\ pc = "call" /\ op = "gdeg"
    /\ Finish(gdeg(r))
    /\ calls' = [calls EXCEPT !.gdeg = calls.gdeg + 1]
    /\ UNCHANGED <<s1, s2, run, prev>>
    /\ UNCHANGED <<op, m, n, r, L, Z, M, p, i, j, D, nsub>>

Calladeg ==
    /\ pc = "call" /\ op = "adeg"
    /\ Finish(adeg(r, None, None))
    /\ calls' = [calls EXCEPT !.adeg = calls.adeg + 1]
    /\ UNCHANGED <<s1, s2, run, prev>>
    /\ UNCHANGED <<op, m, n, r, L, Z, M, p, i, j, D, nsub>>

----------------------------------------------------------------------------
\* Vgeom(m,n), also as called by gHodge.

VgeomOps == {"Vgeom", "gHodge", "Check_GST"}

\* Lines 98-104: the guard, L, Z and M; then the loop over p starts.
VgeomEnter ==
    /\ pc = EntryPc(op) /\ op \in VgeomOps
    /\ IF Degenerate(m, n)
       THEN \* Vgeom returns []; gHodge's "Z,M = []" cannot unpack it.
            /\ Finish(IF op = "Vgeom" THEN Return(<<>>) ELSE Raise("ValueError"))
            /\ UNCHANGED <<L, Z, M, p>>
       ELSE LET Lv == B(m, n)
                top == Min(Len(Lv), Floor2(n * m) + 1)
            IN  /\ L' = Lv
                /\ Z' = <<>>
                /\ M' = [k \in 1..top |-> matrix(Len(Lv[k]), Len(Lv[k]))]
                /\ p' = 0
                /\ pc' = "Vgeom_p"
                /\ ret' = ret
    /\ UNCHANGED <<s1, s2, run, prev, calls>>
    /\ UNCHANGED <<op, m, n, r, i, j, D, nsub>>

\* for p in (0..floor(n*m/2)): l = L[p]
VgeomForP ==
    /\ pc = "Vgeom_p"
    /\ IF p > Floor2(n * m)
       THEN pc' = "Vgeom_ret" /\ ret' = ret
       ELSE IF p >= Len(L) THEN Finish(Raise("IndexError"))
       ELSE pc' = "Vgeom_i" /\ ret' = ret
    /\ i' = 0
    /\ UNCHANGED <<s1, s2, run, prev, calls>>
    /\ UNCHANGED <<op, m, n, r, L, Z, M, p, j, D, nsub>>

\* for i in range(len(l)):
VgeomForI ==
    /\ pc = "Vgeom_i"
    /\ IF i >= Len(At(L, p))
       THEN pc' = "Vgeom_p" /\ p' = p + 1 /\ j' = j
       ELSE pc' = "Vgeom_j" /\ p' = p /\ j' = i
    /\ UNCHANGED <<s1, s2, run, prev, calls>>
    /\ UNCHANGED <<op, m, n, r, L, Z, M, i, D, nsub, ret>>

\* for j in range(i,len(l)): the body, lines 109-116.
VgeomForJ ==
    /\ pc = "Vgeom_j"
    /\ LET l == At(L, p)
       IN  IF j >= Len(l)
           THEN /\ pc' = "Vgeom_i" /\ i' = i + 1
                /\ UNCHANGED <<Z, M, j, ret>>
           ELSE IF Len(e1(n)) # Len(At(l, i))
           THEN /\ Finish(Raise("TypeError"))
                /\ UNCHANGED <<Z, M, i, j>>
           ELSE LET z == VecAdd(VecAdd(At(l, i), At(l, j)),
                                VecScale(n * m - 2 * p, e1(n)))
                    d == Dedup(Z, z)
                IN  /\ Z' = d.pool
                    /\ M' = [M EXCEPT ![p + 1] = SetSym(M[p + 1], i, j, d.idx)]
                    /\ j' = j + 1
                    /\ UNCHANGED <<pc, i, ret>>
    /\ UNCHANGED <<s1, s2, run, prev, calls>>
    /\ UNCHANGED <<op, m, n, r, L, p, D, nsub>>

\* return Z,M
VgeomReturn ==
    /\ pc = "Vgeom_ret" /\ op = "Vgeom"
    /\ Finish(Return(<<Z, M>>))
    /\ UNCHANGED <<s1, s2, run, prev, calls>>
    /\ UNCHANGED <<op, m, n, r, L, Z, M, p, i, j, D, nsub>>

----------------------------------------------------------------------------
\* gHodge(m,n)

\* A faulty variant, for comparison: the entries below the diagonal are left
\* as they are (the inner loop taken as range(i,d), as in Vgeom).
gHodgeBodyUpper(Mv, Nv, Dv, pp, ii, jj) ==
    LET A == At(Mv, pp)
        C == At(Nv, pp)
    IN  IF jj < ii THEN [M |-> Mv, nsub |-> Nv]
        ELSE [M |-> [Mv EXCEPT ![pp + 1] = MSet(A, ii, jj, At(Dv, A.e[<<ii, jj>>]))],
              nsub |-> [Nv EXCEPT ![pp + 1] = MSet(C, ii, jj, C.e[<<ii, jj>>] + 1)]]

\* M[p][i,j] = D[M[p][i,j]]; nsub counts the replacements of each entry.
gHodgeBody(Mv, Nv, Dv, pp, ii, jj) ==
    LET A == At(Mv, pp)
        C == At(Nv, pp)
    IN  [M |-> [Mv EXCEPT ![pp + 1] = MSet(A, ii, jj, At(Dv, A.e[<<ii, jj>>]))],
         nsub |-> [Nv EXCEPT ![pp + 1] = MSet(C, ii, jj, C.e[<<ii, jj>>] + 1)]]

gHodgeOps == {"gHodge", "Check_GST"}

\* The position (from 1) of the first outcome that is an exception: the
\* number of evaluations a list comprehension makes before it is abandoned.
FirstFailure(outs) ==
    CHOOSE k \in 1..Len(outs) : ~outs[k].ok /\ \A q \in 1..(k - 1) : outs[q].ok

\* A faulty variant, for comparison: the degree is evaluated for every
\* matrix entry anew.
EvaluatedPerEntry(pool, Ms) ==
    Flatten([k \in 1..Len(Ms) |->
        Flatten([a \in Upto(Ms[k].rows) |->
            [b \in Upto(Ms[k].cols) |-> At(pool, Ms[k].e[<<a - 1, b - 1>>])]])])

\* [f(v) for v in pool]: the vectors the degree function is applied to, one
\* evaluation for each vector of the pool, whatever the matrices Ms hold.
Evaluated(pool, Ms) == pool

\* A faulty variant, for comparison: Vgeom hands out again the matrices of
\* an earlier call, as a cache of its results would.
UnpackedCached(Mv, earlier) == IF earlier = <<>> THEN Mv ELSE earlier

\* Z,M = Vgeom(m,n): M is the list this call of Vgeom has built, whatever
\* an earlier call left behind.
Unpacked(Mv, earlier) == Mv

\* Z,M = Vgeom(m,n); D = [gdeg(v) for v in Z]
gHodgeDegrees ==
    /\ pc = "Vgeom_ret" /\ op \in gHodgeOps
    /\ M' = Unpacked(M, prev.M)
    /\ LET dg == [k \in 1..Len(Z) |-> gdeg(Z[k])]
       IN  IF \E k \in 1..Len(dg) : ~dg[k].ok
           THEN /\ Finish(Raise("ValueError")) /\ UNCHANGED <<D, nsub, p>>
                /\ calls' = [calls EXCEPT !.gdeg = calls.gdeg + FirstFailure(dg)]
           ELSE /\ D' = [k \in 1..Len(dg) |-> dg[k].val]
                /\ nsub' = [k \in 1..Len(M) |-> matrix(M[k].rows, M[k].cols)]
                /\ p' = 0
                /\ pc' = "gHodge_p"
                /\ ret' = ret
                /\ calls' = [calls EXCEPT !.gdeg = calls.gdeg + Len(Evaluated(Z, M))]
    /\ UNCHANGED <<s1, s2, run, prev>>
    /\ UNCHANGED <<op, m, n, r, L, Z, i, j>>

\* for p in range(len(M)): d = M[p].dimensions()[0]   ...   return M
\* (to the caller Check_GST: H = gHodge(m,n), then "for h in H" starts)
gHodgeForP ==
    /\ pc = "gHodge_p"
    /\ IF p >= Len(M)
       THEN IF op = "gHodge" THEN Finish(Return(M))
            ELSE pc' = "Check_h" /\ ret' = ret
       ELSE pc' = "gHodge_i" /\ ret' = ret
    /\ i' = 0
    /\ UNCHANGED <<s1, s2, run, prev, calls>>
    /\ UNCHANGED <<op, m, n, r, L, Z, M, p, j, D, nsub>>

\* for i in range(d):
gHodgeForI ==
    /\ pc = "gHodge_i"
    /\ IF i >= At(M, p).rows
       THEN pc' = "gHodge_p" /\ p' = p + 1 /\ j' = j
       ELSE pc' = "gHodge_j" /\ p' = p /\ j' = 0
    /\ UNCHANGED <<s1, s2, run, prev, calls>>
    /\ UNCHANGED <<op, m, n, r, L, Z, M, i, D, nsub, ret>>

\* for j in range(d): M[p][i,j] = D[M[p][i,j]]
gHodgeForJ ==
    /\ pc = "gHodge_j"
    /\ IF j >= At(M, p).rows
       THEN pc' = "gHodge_i" /\ i' = i + 1 /\ UNCHANGED <<M, nsub, j, ret>>
       ELSE IF At(M, p).e[<<i, j>>] >= Len(D)
       THEN \* D[k] with k out of range
            Finish(Raise("IndexError")) /\ UNCHANGED <<M, nsub, i, j>>
       ELSE LET b == gHodgeBody(M, nsub, D, p, i, j)
            IN  /\ M' = b.M
                /\ nsub' = b.nsub
                /\ j' = j + 1
                /\ UNCHANGED <<pc, i, ret>>
    /\ UNCHANGED <<s1, s2, run, prev, calls>>
    /\ UNCHANGED <<op, m, n, r, L, Z, p, D>>

----------------------------------------------------------------------------
\* Varith(m,n).  Z is the pair of pools <<Z[0], Z[1]>>, M[p] the pair of
\* matrices <<M[p][0], M[p][1]>>.

\* A faulty variant, for comparison: the multiple of e1 that Vgeom adds.
VarithShiftGeom(mm, nn, pp) == nn * mm - 2 * pp

\* n*m+1-2*p, the multiple of e in lines 283 and 294.
VarithShift(mm, nn, pp) == nn * mm + 1 - 2 * pp

VarithOps == {"Varith", "aHodge", "Check_AST"}

\* Lines 272-278: the guard, L, the seeded pools and the zero matrices.
VarithEnter ==
    /\ pc = EntryPc(op) /\ op \in VarithOps
    /\ IF Degenerate(m, n)
       THEN \* Varith returns []; aHodge's "Z,M = []" cannot unpack it.
            /\ Finish(IF op = "Varith" THEN Return(<<>>) ELSE Raise("ValueError"))
            /\ UNCHANGED <<L, Z, M, p>>
       ELSE LET Lv == B(m, n)
                top == Floor2(n * m + 1)
            IN  /\ L' = Lv
                /\ IF top >= 1 /\ top >= Len(Lv)
                   THEN Finish(Raise("IndexError")) /\ UNCHANGED <<Z, M, p>>
                   ELSE /\ Z' = << <<VecScale(n * m + 1, e1(n))>>, <<>> >>
                        /\ M' = << <<matrix(1, 1), matrix(0, 0)>> >> \o
                                [k \in 1..top |->
                                   <<matrix(Len(At(Lv, k)), Len(At(Lv, k))),
                                     matrix(Len(At(Lv, k)), Len(At(Lv, k - 1)))>>]
                        /\ p' = 1
                        /\ pc' = "Varith_p"
                        /\ ret' = ret
    /\ UNCHANGED <<s1, s2, run, prev, calls>>
    /\ UNCHANGED <<op, m, n, r, i, j, D, nsub>>

\* for p in (1..floor((n*m+1)/2)): l = L[p]
VarithForP ==
    /\ pc = "Varith_p"
    /\ IF p > Floor2(n * m + 1)
       THEN pc' = "Varith_ret" /\ ret' = ret
       ELSE IF p >= Len(L) THEN Finish(Raise("IndexError"))
       ELSE pc' = "Varith_i1" /\ ret' = ret
    /\ i' = 0
    /\ UNCHANGED <<s1, s2, run, prev, calls>>
    /\ UNCHANGED <<op, m, n, r, L, Z, M, p, j, D, nsub>>

\* First loop, for i in range(len(l)): ...; after it l2 = L[p-1] and the
\* second loop starts.
VarithForI1 ==
    /\ pc = "Varith_i1"
    /\ IF i >= Len(At(L, p))
       THEN pc' = "Varith_i2" /\ i' = 0 /\ j' = j
       ELSE pc' = "Varith_j1" /\ i' = i /\ j' = i
    /\ UNCHANGED <<s1, s2, run, prev, calls>>
    /\ UNCHANGED <<op, m, n, r, L, Z, M, p, D, nsub, ret>>

\* for j in range(i,len(l)): the body, lines 283-290.
VarithForJ1 ==
    /\ pc = "Varith_j1"
    /\ LET l == At(L, p)
       IN  IF j >= Len(l)
           THEN /\ pc' = "Varith_i1" /\ i' = i + 1
                /\ UNCHANGED <<Z, M, j, ret>>
           ELSE IF Len(e1(n)) # Len(At(l, i))
           THEN /\ Finish(Raise("TypeError"))
                /\ UNCHANGED <<Z, M, i, j>>
           ELSE LET z == VecAdd(VecAdd(At(l, i), At(l, j)),
                                VecScale(VarithShift(m, n, p), e1(n)))
                    d == Dedup(Z[1], z)
                IN  /\ Z' = [Z EXCEPT ![1] = d.pool]
                    /\ M' = [M EXCEPT ![p + 1][1] = SetSym(M[p + 1][1], i, j, d.idx)]
                    /\ j' = j + 1
                    /\ UNCHANGED <<pc, i, ret>>
    /\ UNCHANGED <<s1, s2, run, prev, calls>>
    /\ UNCHANGED <<op, m, n, r, L, p, D, nsub>>

\* Second loop, for i in range(len(l)):
VarithForI2 ==
    /\ pc = "Varith_i2"
    /\ IF i >= Len(At(L, p))
       THEN pc' = "Varith_p" /\ p' = p + 1 /\ j' = j
       ELSE pc' = "Varith_j2" /\ p' = p /\ j' = 0
    /\ UNCHANGED <<s1, s2, run, prev, calls>>
    /\ UNCHANGED <<op, m, n, r, L, Z, M, i, D, nsub, ret>>

\* for j in range(len(l2)): the body, lines 294-299.
VarithForJ2 ==
    /\ pc = "Varith_j2"
    /\ LET l == At(L, p)
           l2 == At(L, p - 1)
       IN  IF j >= Len(l2)
           THEN /\ pc' = "Varith_i2" /\ i' = i + 1
                /\ UNCHANGED <<Z, M, j, ret>>
           ELSE IF Len(e1(n)) # Len(At(l, i))
           THEN /\ Finish(Raise("TypeError"))
                /\ UNCHANGED <<Z, M, i, j>>
           ELSE LET z == VecAdd(VecAdd(At(l, i), At(l2, j)),
                                VecScale(VarithShift(m, n, p), e1(n)))
                    d == Dedup(Z[2], z)
                IN  /\ Z' = [Z EXCEPT ![2] = d.pool]
                    /\ M' = [M EXCEPT ![p + 1][2] = MSet(M[p + 1][2], i, j, d.idx)]
                    /\ j' = j + 1
                    /\ UNCHANGED <<pc, i, ret>>
    /\ UNCHANGED <<s1, s2, run, prev, calls>>
    /\ UNCHANGED <<op, m, n, r, L, p, D, nsub>>

\* return Z,M
VarithReturn ==
    /\ pc = "Varith_ret" /\ op = "Varith"
    /\ Finish(Return(<<Z, M>>))
    /\ UNCHANGED <<s1, s2, run, prev, calls>>
    /\ UNCHANGED <<op, m, n, r, L, Z, M, p, i, j, D, nsub>>

----------------------------------------------------------------------------
\* aHodge(m,n), also as called by Check_AST.  D is the pair
\* <<Darith, Dgeom>>.  A pool index read from a matrix over QQ is used as a
\* list index, as the notebook does.

aHodgeOps == {"aHodge", "Check_AST"}

\* M[p][0] = matrix(QQ,M[p][0]); M[p][0][i,j] = Darith[M[p][0][i,j]]
aSubstitute(A, Da) == [A EXCEPT !.e = [x \in DOMAIN A.e |-> At(Da, A.e[x])]]

\* M[p][1] = matrix(QQ,M[p][1]); M[p][1][i,j] = Dgeom[M[p][1][i,j]]/2
aSubstituteHalf(A, Dg) ==
    [A EXCEPT !.e = [x \in DOMAIN A.e |-> QHalf(QInt(At(Dg, A.e[x])))]]

\* block_matrix([[A,C],[C.transpose(),0]])
block_matrix(A, C) ==
    LET d1 == A.rows
        d == A.rows + C.cols
    IN  [rows |-> d, cols |-> d,
         e |-> [x \in (0..(d - 1)) \X (0..(d - 1)) |->
                  IF x[1] < d1 /\ x[2] < d1 THEN A.e[x]
                  ELSE IF x[1] < d1 THEN C.e[<<x[1], x[2] - d1>>]
                  ELSE IF x[2] < d1 THEN C.e[<<x[2], x[1] - d1>>]
                  ELSE QInt(0)]]

\* c*A for an integer c.
MatScale(c, A) == [A EXCEPT !.e = [x \in DOMAIN A.e |-> QScale(c, A.e[x])]]

\* A faulty variant, for comparison: the sign (-1)^p is left out.
aHodgeBlockUnsigned(Mp, Da, Dg, pp) ==
    block_matrix(aSubstitute(Mp[1], Da), aSubstituteHalf(Mp[2], Dg))

\* Lines 398-408: the new M[p] from the pair M[p] = <<M[p][0], M[p][1]>>.
aHodgeBlock(Mp, Da, Dg, pp) ==
    MatScale(Sign(pp),
             block_matrix(aSubstitute(Mp[1], Da), aSubstituteHalf(Mp[2], Dg)))

\* matrix(QQ,[x]): the 1 x 1 matrix of the rational x.
matrix1(x) == [rows |-> 1, cols |-> 1, e |-> [y \in {<<0, 0>>} |-> x]]

\* Z,M = Varith(m,n); T; H; Darith; Dgeom; M[0] = matrix(QQ,[Darith[...]])
aHodgeDegrees ==
    /\ pc = "Varith_ret" /\ op \in aHodgeOps
    /\ LET T == Tam(m, n)
           H == harm_list(m + n - 1)
           da == [k \in 1..Len(Z[1]) |-> adeg(Z[1][k], T, H)]
           dg == [k \in 1..Len(Z[2]) |-> gdeg(Z[2][k])]
       IN  IF \E k \in 1..Len(da) : ~da[k].ok
           THEN /\ Finish(Raise("ValueError")) /\ UNCHANGED <<D, M, p>>
                /\ calls' = [calls EXCEPT !.adeg = calls.adeg + FirstFailure(da)]
           ELSE IF \E k \in 1..Len(dg) : ~dg[k].ok
           THEN /\ Finish(Raise("ValueError")) /\ UNCHANGED <<D, M, p>>
                /\ calls' = [calls EXCEPT !.gdeg = calls.gdeg + FirstFailure(dg),
                                         !.adeg = calls.adeg + Len(da)]
           ELSE LET Da == [k \in 1..Len(da) |-> da[k].val]
                    Dg == [k \in 1..Len(dg) |-> dg[k].val]
                    Ma == [k \in 1..Len(M) |-> M[k][1]]
                    Mg == [k \in 1..Len(M) |-> M[k][2]]
                IN  /\ calls' = [calls EXCEPT
                                    !.gdeg = calls.gdeg + Len(Evaluated(Z[2], Mg)),
                                    !.adeg = calls.adeg + Len(Evaluated(Z[1], Ma))]
                    /\ D' = <<Da, Dg>>
                    /\ M' = [M EXCEPT ![1] = matrix1(At(Da, M[1][1].e[<<0, 0>>]))]
                    /\ p' = 1
                    /\ pc' = "aHodge_p"
                    /\ ret' = ret
    /\ UNCHANGED <<s1, s2, run, prev>>
    /\ UNCHANGED <<op, m, n, r, L, Z, i, j, nsub>>

\* for p in (1..len(M)-1): one pass of the body; after the loop, return M
\* (to the caller Check_AST: H = aHodge(m,n), then "for h in H" starts).
aHodgeForP ==
    /\ pc = "aHodge_p"
    /\ IF p > Len(M) - 1
       THEN /\ IF op = "aHodge" THEN Finish(Return(M))
               ELSE pc' = "Check_h" /\ ret' = ret
            /\ i' = 0
            /\ UNCHANGED <<M, p>>
       ELSE /\ M' = [M EXCEPT ![p + 1] = aHodgeBlock(M[p + 1], D[1], D[2], p)]
            /\ p' = p + 1
            /\ UNCHANGED <<pc, i, ret>>
    /\ UNCHANGED <<s1, s2, run, prev, calls>>
    /\ UNCHANGED <<op, m, n, r, L, Z, j, D, nsub>>

----------------------------------------------------------------------------
\* HilbGeom(m,n), Check_GST(m,n), Check_AST(m,n).

CallSignature ==
    /\ pc = "call" /\ op = "Signature"
    /\ Finish(Return(Signature(r)))
    /\ UNCHANGED <<s1, s2, run, prev, calls>>
    /\ UNCHANGED <<op, m, n, r, L, Z, M, p, i, j, D, nsub>>

CallHilbArithm ==
    /\ pc = "call" /\ op = "HilbArithm"
    /\ Finish(HilbArithm(m, n))
    /\ UNCHANGED <<s1, s2, run, prev, calls>>
    /\ UNCHANGED <<op, m, n, r, L, Z, M, p, i, j, D, nsub>>

CallTam ==
    /\ pc = "call" /\ op = "Tam"
    /\ Finish(Return(Tam(m, n)))
    /\ UNCHANGED <<s1, s2, run, prev, calls>>
    /\ UNCHANGED <<op, m, n, r, L, Z, M, p, i, j, D, nsub>>

CallHilbGeom ==
    /\ pc = "call" /\ op = "HilbGeom"
    /\ Finish(HilbGeom(m, n))
    /\ UNCHANGED <<s1, s2, run, prev, calls>>
    /\ UNCHANGED <<op, m, n, r, L, Z, M, p, i, j, D, nsub>>

\* The names the notebook binds at its top level: imports and defs.
GlobalNames ==
    {"groupby", "kostka", "weight", "harm_list", "B", "Vgeom", "gdeg", "gHodge",
     "HilbGeom", "Signature", "Check_GST", "Varith", "Tam", "adeg", "aHodge",
     "HilbArithm", "Check_AST", "aKostka"}

\* name(m,n) for the name of a Hilbert function: a name that is not bound
\* raises NameError.
CallGlobal(name, mm, nn) ==
    IF name \notin GlobalNames THEN Raise("NameError")
    ELSE IF name = "HilbGeom" THEN HilbGeom(mm, nn)
    ELSE HilbArithm(mm, nn)

\* A faulty variant, for comparison: both checks call HilbGeom.
HilbertNameGeom(o) == "HilbGeom"

\* The name each check calls for its Hilbert function (lines 235 and 446).
HilbertName(o) == IF o = "Check_GST" THEN "HilbGeommm" ELSE "HilbArithm"

\* s1 = Signature(...); s2 = []; then H = gHodge(m,n) or aHodge(m,n) starts.
CheckEnter ==
    /\ pc = "call" /\ op \in CheckOps
    /\ LET P == CallGlobal(HilbertName(op), m, n)
       IN  IF ~P.ok THEN Finish(P) /\ UNCHANGED <<s1, s2>>
           ELSE /\ s1' = Signature(P.val)
                /\ s2' = <<>>
                /\ pc' = "Hodge"
                /\ ret' = ret
    /\ UNCHANGED <<run, prev, calls>>
    /\ UNCHANGED <<op, m, n, r, L, Z, M, p, i, j, D, nsub>>

\* A faulty variant, for comparison: a singular matrix raises an error.
FailedRaise(H) == Raise("ValueError")

\* return H,False
Failed(H) == Return(<<H, FALSE>>)

\* A faulty variant, for comparison: the signature is computed before the
\* matrix is tested.
InspectSignFirst(h) == [stop |-> is_singular(h), sig |-> <<signature(h)>>]

\* One pass of "for h in H" (lines 239-241 and 450-452): a singular h ends
\* the check, and the signature is computed and appended only otherwise.
Inspect(h) ==
    IF is_singular(h) THEN [stop |-> TRUE, sig |-> <<>>]
    ELSE [stop |-> FALSE, sig |-> <<signature(h)>>]

\* for h in H: ...; after the loop, the comparison of s1 and s2.
CheckForH ==
    /\ pc = "Check_h"
    /\ IF i >= Len(M)
       THEN /\ Finish(IF s1 = s2 THEN Return(<<M, TRUE>>) ELSE Failed(M))
            /\ UNCHANGED <<s2, i, calls>>
       ELSE LET h == IF op = "Check_GST" THEN QMatrix(At(M, i)) ELSE At(M, i)
                t == Inspect(h)
            IN  /\ calls' = [calls EXCEPT
                                !.is_singular = Append(calls.is_singular, i),
                                !.signature = calls.signature \o [k \in 1..Len(t.sig) |-> i]]
                /\ s2' = s2 \o t.sig
                /\ IF t.stop
                   THEN Finish(Failed(M)) /\ i' = i
                   ELSE i' = i + 1 /\ UNCHANGED <<pc, ret>>
    /\ UNCHANGED <<s1, run, prev>>
    /\ UNCHANGED <<op, m, n, r, L, Z, M, p, j, D, nsub>>

----------------------------------------------------------------------------
\* A second, independent call with the same arguments.  What the first call
\* left in its local variables is still in memory; the second call starts
\* at its first statement.

RerunOps == {"Vgeom", "gHodge", "Varith", "aHodge"}

Rerun ==
    /\ pc = "done" /\ run = 1 /\ op \in RerunOps
    /\ prev' = [ret |-> ret, Z |-> Z, M |-> M]
    /\ run' = 2
    /\ pc' = "call"
    /\ ret' = None
    /\ calls' = NoCalls
    /\ UNCHANGED <<s1, s2>>
    /\ UNCHANGED <<op, m, n, r, L, Z, M, p, i, j, D, nsub>>

----------------------------------------------------------------------------
Next ==
    \/ CallB
    \/ Callgdeg
    \/ Calladeg
    \/ VgeomEnter
    \/ VgeomForP
    \/ VgeomForI
    \/ VgeomForJ
    \/ VgeomReturn
    \/ gHodgeDegrees
    \/ gHodgeForP
    \/ gHodgeForI
    \/ gHodgeForJ
    \/ VarithEnter
    \/ VarithForP
    \/ VarithForI1
    \/ VarithForJ1
    \/ VarithForI2
    \/ VarithForJ2
    \/ VarithReturn
    \/ aHodgeDegrees
    \/ aHodgeForP
    \/ CallHilbGeom
    \/ CallHilbArithm
    \/ CallSignature
    \/ CallTam
    \/ CheckEnter
    \/ CheckForH
    \/ Rerun

Spec == Init /\ [][Next]_vars

----------------------------------------------------------------------------
\* Properties.

Done(o) == pc = "done" /\ op = o

\* The vectors of nn non-negative integers of coordinate sum <= mm.
Lattice(mm, nn) == {v \in [1..nn -> 0..mm] : SumSeq(v) <= mm}

\* The positions <<g, k>> of the list of grades G that hold v.
Places(G, v) == {x \in (1..Len(G)) \X (1..Len(Flatten(G))) :
                    x[2] <= Len(G[x[1]]) /\ G[x[1]][x[2]] = v}

RECURSIVE Binomial(_, _)
Binomial(a, b) ==
    IF b = 0 THEN 1 ELSE IF a = 0 THEN 0
    ELSE Binomial(a - 1, b - 1) + Binomial(a - 1, b)

\* C1: for m >= 0 and n >= 1, B(m,n) is a list of grades such that (i) every
\* entry is a vector of n non-negative integers of coordinate sum <= m,
\* (ii) every such vector occurs in exactly one grade, exactly once, (iii) the
\* vectors of one grade have the same weight, and (iv) the grades come in
\* strictly increasing order of weight.
C1_BGradesPartitionLattice ==
    (Done("B") /\ m >= 0 /\ n >= 1) =>
        /\ ret.ok
        /\ LET G == ret.val
           IN  /\ \A g \in 1..Len(G) :
                     /\ G[g] # <<>>
                     /\ \A k \in 1..Len(G[g]) :
                           /\ G[g][k] \in Lattice(m, n)
                           /\ weight(G[g][k]) = weight(G[g][1])
               /\ \A v \in Lattice(m, n) : Cardinality(Places(G, v)) = 1
               /\ \A g \in 1..(Len(G) - 1) :
                     weight(G[g][1]) < weight(G[g + 1][1])

\* A call whose sort reorders the enumeration and whose grades are not all
\* singletons.
C1_Witness ==
    /\ Done("B") /\ m >= 3 /\ n >= 2
    /\ \E g \in 1..Len(ret.val) : Len(ret.val[g]) >= 2
    /\ Flatten(ret.val) # AllVectors(m, n)

\* C2: for m >= 0 and n >= 1, the number of vectors of B(m,n), over all the
\* grades, is the binomial coefficient C(m+n, n).
C2_BCountIsBinomial ==
    (Done("B") /\ m >= 0 /\ n >= 1) =>
        ret.ok /\ Len(Flatten(ret.val)) = Binomial(m + n, n)

C2_Witness == Done("B") /\ m >= 2 /\ n >= 2 /\ Len(Flatten(ret.val)) = 6

\* C3: when m < 0 or n < 0, B(m,n), Vgeom(m,n) and Varith(m,n) return the
\* empty list, at once and without an error.
C3_DegenerateGivesEmptyList ==
    (op \in {"B", "Vgeom", "Varith"} /\ (m < 0 \/ n < 0)) =>
        /\ pc \in {"call", "done"}
        /\ pc = "done" => ret = Return(<<>>)

C3_Witness == Done("Varith") /\ m >= 1 /\ n < 0 /\ ret = Return(<<>>)

\* C4: for m >= 0 and n >= 1, if (Z,M) = Vgeom(m,n) and L = B(m,n), then M
\* has floor(mn/2)+1 matrices, M[p] is square of size len(L[p]), and every
\* entry M[p][i,j] is an index of Z with
\* Z[M[p][i,j]] = L[p][i] + L[p][j] + (mn - 2p)*e1.
C4_VgeomEntriesDesignatePairings ==
    (Done("Vgeom") /\ m >= 0 /\ n >= 1) =>
        /\ ret.ok
        /\ Len(ret.val) = 2
        /\ LET Zr == ret.val[1]
               Mr == ret.val[2]
               Lb == B(m, n)
           IN  /\ Len(Mr) = Floor2(m * n) + 1
               /\ \A q \in 0..Floor2(m * n) :
                     LET A == At(Mr, q)
                         l == At(Lb, q)
                     IN  /\ A.rows = Len(l) /\ A.cols = Len(l)
                         /\ \A a \in 0..(Len(l) - 1) : \A b \in 0..(Len(l) - 1) :
                               /\ A.e[<<a, b>>] \in 0..(Len(Zr) - 1)
                               /\ At(Zr, A.e[<<a, b>>]) =
                                     VecAdd(VecAdd(At(l, a), At(l, b)),
                                            VecScale(m * n - 2 * q, e1(n)))

\* The number of matrix entries of a list of matrices.
Entries(Ms) == SumSeq([k \in 1..Len(Ms) |-> Ms[k].rows * Ms[k].cols])

C4_Witness ==
    /\ Done("Vgeom") /\ m >= 2 /\ n >= 2 /\ ret.ok
    /\ Len(ret.val[1]) >= 3
    /\ Len(ret.val[1]) < Entries(ret.val[2])

Symmetric(A) ==
    /\ A.rows = A.cols
    /\ \A a \in 0..(A.rows - 1) : \A b \in 0..(A.rows - 1) :
          A.e[<<a, b>>] = A.e[<<b, a>>]

\* C5: every matrix M[p] returned by Vgeom(m,n) is symmetric, and so is
\* every square matrix M[p][0] returned by Varith(m,n).
C5_PairingMatricesSymmetric ==
    /\ (Done("Vgeom") /\ ret.ok /\ ret.val # <<>>) =>
          \A k \in 1..Len(ret.val[2]) : Symmetric(ret.val[2][k])
    /\ (Done("Varith") /\ ret.ok /\ ret.val # <<>>) =>
          \A k \in 1..Len(ret.val[2]) : Symmetric(ret.val[2][k][1])

C5_Witness ==
    /\ Done("Varith") /\ ret.ok /\ ret.val # <<>>
    /\ \E k \in 1..Len(ret.val[2]) :
          LET A == ret.val[2][k][1]
          IN  A.rows >= 2 /\ A.e[<<0, 1>>] # 0 /\ A.e[<<0, 1>>] # A.e[<<0, 0>>]

NoDuplicates(s) == \A a \in 1..Len(s) : \A b \in 1..Len(s) : s[a] = s[b] => a = b

\* C6: at every step of Vgeom and Varith, and in their result, no pool holds
\* two equal vectors; in Varith the seed (mn+1)*e1 of the pool Z[0] stays
\* its first element and is never appended again.
C6_PoolsHoldNoDuplicates ==
    /\ op \in VgeomOps => NoDuplicates(Z)
    /\ (op \in VarithOps /\ Z # <<>>) =>
          /\ NoDuplicates(Z[1])
          /\ NoDuplicates(Z[2])
          /\ Z[1][1] = VecScale(n * m + 1, e1(n))
    /\ (Done("Vgeom") /\ ret.ok /\ ret.val # <<>>) => NoDuplicates(ret.val[1])
    /\ (Done("Varith") /\ ret.ok /\ ret.val # <<>>) =>
          NoDuplicates(ret.val[1][1]) /\ NoDuplicates(ret.val[1][2])

\* The pairing e1 + e1 + (mn-1)*e1 of grade 1 has produced the seed again.
C6_Witness ==
    /\ op = "Varith" /\ pc = "Varith_j1" /\ m >= 1 /\ n >= 2
    /\ p = 1 /\ i = 0 /\ j = 1
    /\ At(At(L, 1), 0) = e1(n)
    /\ Len(Z[1]) = 1
    /\ M[2][1].e[<<0, 0>>] = 0

AppendOnly(s, t) ==
    /\ Len(t) \in {Len(s), Len(s) + 1}
    /\ \A k \in 1..Len(s) : t[k] = s[k]

\* C7: while Vgeom and Varith run, a step leaves a pool unchanged or appends
\* one vector at its end: the vector stored at an index never changes.
C7_PoolsAreAppendOnly ==
    [][/\ (op \in VgeomOps /\ pc # "call") => AppendOnly(Z, Z')
       /\ (op \in VarithOps /\ pc # "call" /\ Z # <<>>) =>
             AppendOnly(Z[1], Z'[1]) /\ AppendOnly(Z[2], Z'[2])]_vars

C7_Witness ==
    /\ op = "Vgeom" /\ pc = "Vgeom_j" /\ Len(Z) >= 2
    /\ p >= 2 /\ j < Len(At(L, p))

\* C8: for m >= 0 and n >= 1, the p-th matrix returned by gHodge(m,n) holds
\* at (i,j) the value gdeg(B(m,n)[p][i] + B(m,n)[p][j] + (mn - 2p)*e1), and
\* every entry was replaced exactly once.
C8_gHodgeEntriesAreDegrees ==
    (Done("gHodge") /\ m >= 0 /\ n >= 1) =>
        /\ ret.ok
        /\ LET Hr == ret.val
               Lb == B(m, n)
           IN  /\ Len(Hr) = Floor2(m * n) + 1
               /\ \A q \in 0..Floor2(m * n) :
                     LET A == At(Hr, q)
                         l == At(Lb, q)
                     IN  /\ A.rows = Len(l) /\ A.cols = Len(l)
                         /\ \A a \in 0..(Len(l) - 1) : \A b \in 0..(Len(l) - 1) :
                               /\ A.e[<<a, b>>] =
                                     gdeg(VecAdd(VecAdd(At(l, a), At(l, b)),
                                                 VecScale(m * n - 2 * q, e1(n)))).val
                               /\ At(nsub, q).e[<<a, b>>] = 1

C8_Witness ==
    /\ Done("gHodge") /\ m >= 2 /\ n >= 2 /\ ret.ok
    /\ \E k \in 1..Len(ret.val) :
          ret.val[k].rows >= 2 /\ ret.val[k].e[<<0, 1>>] # ret.val[k].e[<<1, 1>>]

\* C9: gdeg(v) raises ValueError when the weight of v is not a multiple of
\* the length of v, and returns when it is (length >= 1).
C9_gdegRaisesIffNotMultiple ==
    Done("gdeg") =>
        /\ (weight(r) % Len(r) # 0) => ret = Raise("ValueError")
        /\ (weight(r) % Len(r) = 0) => ret.ok

C9_Witness ==
    /\ Done("gdeg") /\ Len(r) >= 2
    /\ weight(r) % Len(r) # 0 /\ weight(r) > Len(r)
    /\ ret = Raise("ValueError")

\* C10 as stated: adeg(v) raises ValueError for every v of length n >= 1
\* whose weight mod n is not 1, and does not raise it when weight mod n is 1.
C10_Original ==
    Done("adeg") =>
        /\ (weight(r) % Len(r) # 1) => ret = Raise("ValueError")
        /\ (weight(r) % Len(r) = 1) => ret.ok

\* C10 amended: adeg(v) raises ValueError exactly when weight(v) - 1 is not
\* a multiple of the length n of v: for n >= 2 when weight mod n is not 1,
\* and never for n = 1.
C10_adegRaisesIffNotCongruentToOne ==
    Done("adeg") =>
        /\ (Len(r) >= 2 /\ weight(r) % Len(r) # 1) => ret = Raise("ValueError")
        /\ (Len(r) >= 2 /\ weight(r) % Len(r) = 1) => ret.ok
        /\ Len(r) = 1 => ret.ok

C10_Witness == Done("adeg") /\ Len(r) = 1 /\ weight(r) = 2 /\ ret = Return(<<1, 2>>)

----------------------------------------------------------------------------
\* Properties of the checks, of HilbGeom and of aHodge.

\* The matrix h as the check of the function o reads it: over QQ.
Rational(o, h) == IF o = "Check_GST" THEN QMatrix(h) ELSE h

\* The list H of the matrices assembled for a check holds a singular one.
HasSingular(o, H) == \E k \in 1..Len(H) : is_singular(Rational(o, H[k]))

\* The check has assembled its list of matrices H (held in M) and is over.
Assembled == pc = "done" /\ op \in CheckOps /\ M # <<>>

Signatures(o, H) == [k \in 1..Len(H) |-> signature(Rational(o, H[k]))]

\* The verdict the checks are to give on the list H against the expected
\* signatures s.
Verdict(o, H, s) == ~HasSingular(o, H) /\ Signatures(o, H) = s

\* The matrices of gHodge(m,n) as C8 describes them: at (i,j) of the p-th
\* one, gdeg(B[p][i] + B[p][j] + (mn - 2p)*e1).
gHodgeMatrices(mm, nn) ==
    LET Lb == B(mm, nn)
    IN  [q1 \in 1..(Floor2(mm * nn) + 1) |->
            LET l == Lb[q1]
            IN  [rows |-> Len(l), cols |-> Len(l),
                 e |-> [x \in (0..(Len(l) - 1)) \X (0..(Len(l) - 1)) |->
                          gdeg(VecAdd(VecAdd(At(l, x[1]), At(l, x[2])),
                                      VecScale(mm * nn - 2 * (q1 - 1), e1(nn)))).val]]]

\* The matrices of aHodge(m,n) as C18 describes them: the 0-th is
\* [adeg((mn+1)*e1)], the p-th is (-1)^p [[A, C], [C^T, 0]].
aHodgeMatrices(mm, nn) ==
    LET Lb == B(mm, nn)
        off(q) == VecScale(mm * nn + 1 - 2 * q, e1(nn))
        A(q, a, b) == adeg(VecAdd(VecAdd(At(At(Lb, q), a), At(At(Lb, q), b)), off(q)),
                           None, None).val
        C(q, a, b) == QHalf(QInt(gdeg(VecAdd(VecAdd(At(At(Lb, q), a),
                                                    At(At(Lb, q - 1), b)), off(q))).val))
    IN  [q1 \in 1..(Floor2(mm * nn + 1) + 1) |->
            IF q1 = 1 THEN matrix1(adeg(off(0), None, None).val)
            ELSE LET q == q1 - 1
                     d1 == Len(At(Lb, q))
                     d == d1 + Len(At(Lb, q - 1))
                 IN  [rows |-> d, cols |-> d,
                      e |-> [x \in (0..(d - 1)) \X (0..(d - 1)) |->
                               QScale(Sign(q),
                                   IF x[1] < d1 /\ x[2] < d1 THEN A(q, x[1], x[2])
                                   ELSE IF x[1] < d1 THEN C(q, x[1], x[2] - d1)
                                   ELSE IF x[2] < d1 THEN C(q, x[2], x[1] - d1)
                                   ELSE QInt(0))]]]

\* C12 as stated: for m >= 0 and n >= 1, Check_GST(m,n) returns a pair
\* (H, ok), H the list gHodge(m,n), and ok is true exactly when every matrix
\* of H is non-singular and their signatures are Signature(HilbGeom(m,n)).
C12_Original ==
    (Done("Check_GST") /\ m >= 0 /\ n >= 1) =>
        /\ ret.ok
        /\ ret.val[1] = gHodgeMatrices(m, n)
        /\ ret.val[2] = Verdict(op, ret.val[1], Signature(HilbGeom(m, n).val))

\* Check_GST has stopped at its first statement: HilbGeommm is not defined.
C12_Witness ==
    /\ Done("Check_GST") /\ m >= 1 /\ n >= 1
    /\ "HilbGeommm" \notin GlobalNames
    /\ ret = Raise("NameError")
    /\ M = <<>> /\ s1 = <<>>

\* C13: for m >= 0 and n >= 1, Check_AST(m,n) returns a pair (H, ok), H the
\* list aHodge(m,n), and ok is true exactly when every matrix of H is
\* non-singular and their signatures are Signature(HilbArithm(m,n)).
C13_CheckASTVerdict ==
    (Done("Check_AST") /\ m >= 0 /\ n >= 1) =>
        /\ ret.ok
        /\ ret.val[1] = aHodgeMatrices(m, n)
        /\ ret.val[2] = Verdict(op, ret.val[1], Signature(HilbArithm(m, n).val))

\* Check_AST(m,n) has returned true on matrices of size 1 and 2.
C13_Witness ==
    /\ Done("Check_AST") /\ m >= 1 /\ n >= 1
    /\ ret.ok /\ ret.val[2] = TRUE
    /\ Len(ret.val[1]) >= 2 /\ ret.val[1][2].rows = 2
    /\ s2 = <<1, 0>>

\* The case (m,n) = (1,1) of B and of gHodge: two grades, of weights 0 and
\* 1, of one vector each; one matrix, the 1 x 1 identity.
SmallCaseOfBAndgHodge ==
    /\ (Done("B") /\ m = 1 /\ n = 1) =>
          /\ ret.ok /\ Len(ret.val) = 2
          /\ Len(ret.val[1]) = 1 /\ weight(ret.val[1][1]) = 0
          /\ Len(ret.val[2]) = 1 /\ weight(ret.val[2][1]) = 1
    /\ (Done("gHodge") /\ m = 1 /\ n = 1) =>
          /\ ret.ok /\ Len(ret.val) = 1
          /\ ret.val[1] = [rows |-> 1, cols |-> 1, e |-> [x \in {<<0, 0>>} |-> 1]]

\* C14 as stated: for (m,n) = (1,1), B has two grades of one vector each,
\* gHodge is the single 1 x 1 identity matrix, and Check_GST(1,1) returns
\* true.
C14_Original ==
    /\ SmallCaseOfBAndgHodge
    /\ (Done("Check_GST") /\ m = 1 /\ n = 1) => (ret.ok /\ ret.val[2] = TRUE)

\* Check_GST(1,1) is over, with an error and no verdict.
C14_Witness ==
    /\ Done("Check_GST") /\ m = 1 /\ n = 1
    /\ ~ret.ok /\ ret.exc = "NameError"

TopVector(c, nn) == Rep(0, nn - 1) \o <<c>>

\* C16: for m >= 1 and n >= 1, gdeg((0,...,0,m)), the degree of the vector
\* of length n that holds m copies of the value n (weight mn), is 1.
C16_gdegOfTopVectorIsOne ==
    (Done("gdeg") /\ r[Len(r)] >= 1 /\ r = TopVector(r[Len(r)], Len(r))) =>
        ret = Return(1)

C16_Witness ==
    /\ Done("gdeg") /\ Len(r) >= 2 /\ r = TopVector(2, Len(r))
    /\ weight(r) = 2 * Len(r)
    /\ ret = Return(1)

\* C17: for m >= 0 and n >= 1, HilbGeom(m,n) returns a list of mn+1
\* integers whose p-th entry is the number of vectors in grade p of B(m,n);
\* the sum of the list is the number of vectors of B(m,n).
C17_HilbGeomCountsGrades ==
    (Done("HilbGeom") /\ m >= 0 /\ n >= 1) =>
        /\ ret.ok
        /\ Len(ret.val) = m * n + 1
        /\ Len(B(m, n)) = m * n + 1
        /\ \A q \in 0..(m * n) :
              At(ret.val, q) \in Int /\ At(ret.val, q) = Len(At(B(m, n), q))
        /\ SumSeq(ret.val) = Len(Flatten(B(m, n)))

\* A call whose list has a grade with more than one vector.
C17_Witness ==
    /\ Done("HilbGeom") /\ m >= 2 /\ n >= 2 /\ ret.ok
    /\ \E q \in 1..Len(ret.val) : ret.val[q] >= 2
    /\ SumSeq(ret.val) = Len(Flatten(B(m, n)))

\* C18: for m,n >= 1, aHodge(m,n) returns floor((mn+1)/2)+1 matrices; the
\* 0-th is the 1x1 matrix [adeg((mn+1)*e1)], and for p >= 1 the p-th is
\* (-1)^p times the symmetric block matrix [[A, C], [C^T, 0]] with
\* A[i,j] = adeg(B[p][i] + B[p][j] + (mn+1-2p)*e1),
\* C[i,j] = gdeg(B[p][i] + B[p-1][j] + (mn+1-2p)*e1)/2 and a zero block of
\* size len(B[p-1]).
C18_aHodgeBlocks ==
    (Done("aHodge") /\ m >= 1 /\ n >= 1) =>
        /\ ret.ok
        /\ Len(ret.val) = Floor2(m * n + 1) + 1
        /\ ret.val = aHodgeMatrices(m, n)
        /\ \A q \in 1..Floor2(m * n + 1) :
              LET h == At(ret.val, q)
                  d1 == Len(At(B(m, n), q))
                  d2 == Len(At(B(m, n), q - 1))
              IN  /\ h.rows = d1 + d2 /\ h.cols = d1 + d2
                  /\ \A a \in 0..(h.rows - 1) : \A b \in 0..(h.cols - 1) :
                        /\ h.e[<<a, b>>] = h.e[<<b, a>>]
                        /\ (a >= d1 /\ b >= d1) => h.e[<<a, b>>] = QInt(0)

\* aHodge has returned matrices with both signs: the first one negated, the
\* second one not, and a second one with a block A of size two or more.
C18_Witness ==
    /\ Done("aHodge") /\ m >= 2 /\ n >= 2 /\ ret.ok
    /\ Len(ret.val) >= 3
    /\ At(ret.val, 1).e[<<0, 0>>][1] < 0
    /\ At(ret.val, 2).e[<<0, 0>>][1] > 0
    /\ Len(At(B(m, n), 2)) >= 2
    /\ At(ret.val, 2).e[<<0, 2>>] # QInt(0)

\* The set of the elements of a list.
Elements(sq) == {sq[k] : k \in 1..Len(sq)}

\* The vectors that a matrix A designates in the pool Zp.
Designated(A, Zp) ==
    {At(Zp, A.e[x]) : x \in {y \in DOMAIN A.e : A.e[y] \in 0..(Len(Zp) - 1)}}

C20_Original ==
    (pc = "done" /\ op \in {"gHodge", "aHodge"} /\ (m < 0 \/ n < 0)) =>
        /\ ret.ok
        /\ ret.val = <<>>

\* aHodge was called with a negative bound and has raised at "Z,M = []".
C20_Witness ==
    /\ Done("aHodge") /\ (m < 0 \/ n < 0)
    /\ Z = <<>> /\ M = <<>>
    /\ ret = Raise("ValueError")

----------------------------------------------------------------------------
\* Properties of Signature, Tam and HilbArithm, and of the bookkeeping of
\* grades, pools and degrees.

\* C21: for an integer list v = (v_0,...,v_d), d >= 0, Signature(v) returns
\* the list s of length floor(d/2)+1 with
\* s_p = (-1)^p * (1 + sum_{q=1..p} (-1)^q * (v_q - v_{q-1})).
C21_SignatureIsAlternatingSum ==
    Done("Signature") =>
        /\ ret.ok
        /\ Len(ret.val) = Floor2(Len(r) - 1) + 1
        /\ \A pp \in 0..Floor2(Len(r) - 1) :
              At(ret.val, pp) =
                 Sign(pp) * (1 + SumSeq([q \in Upto(pp) |->
                                            Sign(q) * (At(r, q) - At(r, q - 1))]))

\* A list of five integers whose signature has three entries, a negative
\* one among them.
C21_Witness ==
    /\ Done("Signature") /\ Len(r) = 5 /\ Len(ret.val) = 3
    /\ ret.val[2] < 0 /\ ret.val[3] # ret.val[2] /\ ret.val[3] # 1

\* The triples (a,b,j) of non-negative integers with a < m, j < b < n and
\* a + b + j < m + n.
TamSet(mm, nn) ==
    {t \in (0..mm) \X (0..nn) \X (0..nn) :
        t[1] < mm /\ t[3] < t[2] /\ t[2] < nn /\ t[1] + t[2] + t[3] < mm + nn}

\* C22: for m,n >= 0, Tam(m,n) lists exactly the triples (a,b,j) of
\* non-negative integers with a < m, j < b < n and a + b + j < m + n, each
\* exactly once.
C22_TamListsTheTriples ==
    (Done("Tam") /\ m >= 0 /\ n >= 0) =>
        /\ ret.ok
        /\ Elements(ret.val) = TamSet(m, n)
        /\ Len(ret.val) = Cardinality(TamSet(m, n))

\* A call where the bound a + b + j < m + n excludes a triple that satisfies
\* a < m and j < b < n.
C22_Witness ==
    /\ Done("Tam") /\ m >= 2 /\ n >= 4
    /\ Len(ret.val) >= 3
    /\ <<m - 1, n - 1, n - 2>> \notin Elements(ret.val)
    /\ <<0, n - 1, n - 2>> \in Elements(ret.val)

\* len(B(m,n)[q]), a missing grade counting as 0.
GradeSize(mm, nn, q) ==
    IF q \in 0..(Len(B(mm, nn)) - 1) THEN Len(At(B(mm, nn), q)) ELSE 0

\* C23: for m >= 0 and n >= 1, HilbArithm(m,n) returns a list of mn+2
\* integers whose p-th entry is len(B(m,n)[p]) + len(B(m,n)[p-1]), a missing
\* grade counting as 0.
C23_HilbArithmCountsBlocks ==
    (Done("HilbArithm") /\ m >= 0 /\ n >= 1) =>
        /\ ret.ok
        /\ Len(ret.val) = m * n + 2
        /\ \A q \in 0..(m * n + 1) :
              /\ At(ret.val, q) \in Int
              /\ At(ret.val, q) = GradeSize(m, n, q) + GradeSize(m, n, q - 1)

\* A call whose list has an entry that adds two grades of different sizes.
C23_Witness ==
    /\ Done("HilbArithm") /\ m >= 2 /\ n >= 2 /\ ret.ok
    /\ \E q \in 1..(m * n) :
          /\ GradeSize(m, n, q) # GradeSize(m, n, q - 1)
          /\ At(ret.val, q) = GradeSize(m, n, q) + GradeSize(m, n, q - 1)
          /\ At(ret.val, q) >= 3

\* C24: for m >= 0 and n >= 1, at every step every vector in the pool of
\* Vgeom(m,n) has weight mn, every vector in the pool Z[0] of Varith(m,n)
\* has weight mn+1 and every vector in Z[1] has weight mn; so the weight
\* guards of gdeg and adeg pass on every pool vector, and gHodge and aHodge
\* end without an error.
C24_PoolWeights ==
    (m >= 0 /\ n >= 1) =>
        /\ op \in VgeomOps =>
              \A k \in 1..Len(Z) :
                 weight(Z[k]) = m * n /\ weight(Z[k]) % Len(Z[k]) = 0
        /\ (op \in VarithOps /\ Z # <<>>) =>
              /\ \A k \in 1..Len(Z[1]) :
                    weight(Z[1][k]) = m * n + 1 /\ (weight(Z[1][k]) - 1) % Len(Z[1][k]) = 0
              /\ \A k \in 1..Len(Z[2]) :
                    weight(Z[2][k]) = m * n /\ weight(Z[2][k]) % Len(Z[2][k]) = 0
        /\ (pc = "done" /\ op \in {"gHodge", "aHodge"}) => ret.ok

\* aHodge has ended on a pool Z[0] of three or more vectors and a pool Z[1]
\* of two or more.
C24_Witness ==
    /\ Done("aHodge") /\ m >= 2 /\ n >= 2 /\ ret.ok
    /\ Len(Z[1]) >= 3 /\ Len(Z[2]) >= 2
    /\ \A k \in 1..Len(Z[1]) : weight(Z[1][k]) = m * n + 1
    /\ \A k \in 1..Len(Z[2]) : weight(Z[2][k]) = m * n

\* C25: in one call of gHodge(m,n), gdeg is evaluated once for each vector
\* of the pool, len(Z) times in all, however many matrix entries refer to
\* the vector, and adeg never; in one call of aHodge(m,n), adeg is evaluated
\* once for each vector of Z[0] and gdeg once for each vector of Z[1].  The
\* substitution loops evaluate neither.
C25_DegreesEvaluatedOncePerVector ==
    /\ (op \in gHodgeOps /\ (pc \in {"gHodge_p", "gHodge_i", "gHodge_j", "Check_h"}
                               \/ (Done("gHodge") /\ ret.ok))) =>
          calls.gdeg = Len(Z) /\ calls.adeg = 0
    /\ (op \in aHodgeOps /\ (pc \in {"aHodge_p", "Check_h"}
                               \/ (Done("aHodge") /\ ret.ok))) =>
          calls.adeg = Len(Z[1]) /\ calls.gdeg = Len(Z[2])

\* gHodge has returned matrices with more entries than the pool has vectors:
\* several entries shared one evaluation.
C25_Witness ==
    /\ Done("gHodge") /\ ret.ok /\ m >= 2 /\ n >= 2
    /\ Len(Z) >= 3 /\ Entries(ret.val) > Len(Z)
    /\ calls.gdeg = Len(Z)

\* The grades 0, 1, ..., k-1 in order.
FirstGrades(k) == [q \in Upto(k) |-> q - 1]

GradeOfWeight(l, w) == l # <<>> /\ \A k \in 1..Len(l) : weight(l[k]) = w

\* C27: for m >= 0 and n >= 1, the position of a grade in B(m,n) is its
\* weight: B(m,n) has mn+1 grades, none empty, and every vector of
\* B(m,n)[p] has weight p.  So L[p] in Vgeom (p <= floor(mn/2)) and L[p],
\* L[p-1] in Varith (1 <= p <= floor((mn+1)/2)) are in range and are the
\* grades of weight p and p-1, and no call ends in IndexError.
C27_GradePositionIsWeight ==
    (m >= 0 /\ n >= 1) =>
        /\ Done("B") =>
              /\ ret.ok
              /\ Len(ret.val) = m * n + 1
              /\ \A q \in 0..(m * n) : GradeOfWeight(At(ret.val, q), q)
        /\ (op \in VgeomOps /\ pc \in {"Vgeom_i", "Vgeom_j"}) =>
              /\ p \in 0..Floor2(m * n)
              /\ p < Len(L)
              /\ GradeOfWeight(At(L, p), p)
        /\ (op \in VarithOps
              /\ pc \in {"Varith_i1", "Varith_j1", "Varith_i2", "Varith_j2"}) =>
              /\ p \in 1..Floor2(m * n + 1)
              /\ p < Len(L)
              /\ GradeOfWeight(At(L, p), p)
              /\ GradeOfWeight(At(L, p - 1), p - 1)
        /\ (pc = "done" /\ op \in VgeomOps \cup VarithOps) =>
              ret # Raise("IndexError")

\* Varith is in its second loop at the last grade it visits, a grade of two
\* or more vectors.
C27_Witness ==
    /\ op = "Varith" /\ pc = "Varith_j2" /\ m >= 2 /\ n >= 2
    /\ p = Floor2(m * n + 1)
    /\ Len(At(L, p)) >= 2 /\ Len(At(L, p - 1)) >= 2
    /\ GradeOfWeight(At(L, p), p)

\* The entries of the matrices Ms in the order Vgeom writes them: grade p
\* ascending, then i ascending, then j from i on ascending.
ScanOrder(Ms) ==
    Flatten([k \in 1..Len(Ms) |->
        Flatten([a \in Upto(Ms[k].rows) |->
            [b \in Upto(Ms[k].rows - a + 1) |-> Ms[k].e[<<a - 1, a - 1 + b - 1>>]]])])

\* C28: in the result (Z,M) of Vgeom(m,n) every pool vector is referred to
\* by a matrix entry, and the pool is in first-seen order: in the order of
\* construction, the first entry holds index 0 and the first occurrence of
\* index k comes before the first occurrence of index k+1.
C28_PoolInFirstSeenOrder ==
    (Done("Vgeom") /\ ret.ok /\ ret.val # <<>>) =>
        LET Zr == ret.val[1]
            S == ScanOrder(ret.val[2])
        IN  /\ S # <<>>
            /\ S[1] = 0
            /\ \A k \in 0..(Len(Zr) - 1) : InList(S, k)
            /\ \A k \in 0..(Len(Zr) - 2) : Index(S, k) < Index(S, k + 1)

\* A result whose pool has three or more vectors, one of them referred to
\* again later in the scan, after the first occurrence of a later index.
C28_Witness ==
    /\ Done("Vgeom") /\ ret.ok /\ m >= 2 /\ n >= 2
    /\ Len(ret.val[1]) >= 3
    /\ LET S == ScanOrder(ret.val[2])
       IN  \E a \in 1..Len(S) : \E b \in 1..Len(S) : a < b /\ S[b] < S[a]

\* C29: for m >= 0 and n >= 1 the expected signatures are as many as the
\* assembled matrices: len(Signature(HilbGeom(m,n))) = len(gHodge(m,n)) =
\* floor(mn/2)+1 and len(Signature(HilbArithm(m,n))) = len(aHodge(m,n)) =
\* floor((mn+1)/2)+1; when a check reaches its comparison of s1 and s2, the
\* two lists have the same length.
C29_SignatureLengthsMatch ==
    (m >= 0 /\ n >= 1) =>
        /\ Done("gHodge") =>
              /\ ret.ok
              /\ HilbGeom(m, n).ok
              /\ Len(ret.val) = Floor2(m * n) + 1
              /\ Len(Signature(HilbGeom(m, n).val)) = Len(ret.val)
        /\ Done("aHodge") =>
              /\ ret.ok
              /\ HilbArithm(m, n).ok
              /\ Len(ret.val) = Floor2(m * n + 1) + 1
              /\ Len(Signature(HilbArithm(m, n).val)) = Len(ret.val)
        /\ (op \in CheckOps /\ pc = "Check_h") => Len(s1) = Len(M)
        /\ (op \in CheckOps /\ pc = "Check_h" /\ i >= Len(M)) => Len(s1) = Len(s2)

\* Check_AST is at its comparison of s1 and s2, two lists of two or more
\* signatures.
C29_Witness ==
    /\ op = "Check_AST" /\ pc = "Check_h" /\ m >= 1 /\ n >= 1
    /\ i = Len(M) /\ Len(M) >= 2
    /\ Len(s1) = Len(s2) /\ Len(s2) = Len(M)

\* C30: for m,n >= 1 and every triple (a,b,j) of Tam(m,n), what adeg makes
\* of it is well-formed: the component-wise sum of [m-1]*(n-1)+[a],
\* [1]*b+[0]*(n-b) and [m+n-a-b-j]+[1]*j+[0]*(n-j-1) is a weakly decreasing
\* list of n non-negative integers of total mn+1, and the indices
\* m+n-a-j-1 and m+n-a-b-1 are positions of the list harm_list(m+n-1).
C30_TamDataWellFormed ==
    (Done("Tam") /\ m >= 1 /\ n >= 1) =>
        /\ ret.ok
        /\ Len(harm_list(m + n - 1)) = m + n
        /\ \A k \in 1..Len(ret.val) :
              LET t == ret.val[k]
                  l == TamShape(m, n, t)
              IN  /\ Len(l) = n
                  /\ IsPartition(l)
                  /\ SumSeq(l) = m * n + 1
                  /\ (m + n - t[1] - t[3] - 1) \in 0..(Len(harm_list(m + n - 1)) - 1)
                  /\ (m + n - t[1] - t[2] - 1) \in 0..(Len(harm_list(m + n - 1)) - 1)

\* Tam has returned a triple with a >= 1 and j >= 1 whose list has three
\* different values.
C30_Witness ==
    /\ Done("Tam") /\ m >= 2 /\ n >= 3
    /\ \E k \in 1..Len(ret.val) :
          LET t == ret.val[k]
              l == TamShape(m, n, t)
          IN  /\ t[1] >= 1 /\ t[3] >= 1
              /\ IsPartition(l) /\ l[1] > l[2] /\ l[2] > l[n] /\ l[n] = t[1]

====
